---- MODULE Spec2Model ----
(***************************************************************************)
(* The AI Employee Sorter front-end: the App component's state (roster,    *)
(* ranked roster, task assignments, busy flags, error notification), the   *)
(* EmployeeForm's state (name, resume file, analysing flag), the three     *)
(* remote calls of geminiService in flight, and the 7000 ms timers that    *)
(* handleSetError schedules.  One time unit of the model is 1000 ms.       *)
(***************************************************************************)
EXTENDS Integers, Sequences, FiniteSets, TLC

\* ---------------------------------------------------------------- bounds
MaxEmployees == 2
MaxRankResp == 1
MaxCallResp == 2
MaxAssignments == 1
MaxTimers == 2
MaxPages == 2

\* setTimeout(() => setError(null), 7000), in units of 1000 ms
TimerDelay == 7

VARIABLES
    employees,        \* App: useState<AnalyzedEmployee[]>
    rankedEmployees,  \* App: useState<RankedEmployee[]>
    assignments,      \* App: useState<TaskAssignment[]>
    isRanking,        \* App: busy flag of the ranking request
    isDistributing,   \* App: busy flag of the distribution request
    error,            \* App: useState<string | null>
    name,             \* EmployeeForm: the entered name
    resumeFile,       \* EmployeeForm: the selected file, or Null
    isAnalyzing,      \* EmployeeForm: busy flag of the analysis
    analyzeCalls,     \* handleSubmit invocations suspended at an await
    rankCalls,        \* handleRankEmployees invocations suspended at the await
    distributeCalls,  \* handleDistributeTasks invocations suspended at the await
    timers,           \* remaining delays of the pending setTimeout callbacks
    errorAge,         \* time units since the value of error was last set
    callEmployees,    \* rankEmployees called on its own: the roster argument
    callResponse,     \* ... the outcome of ai.models.generateContent
    callResult,       \* ... what the call returned or threw
    pdfDoc,           \* processPdfToImages: the file and its environment
    pdfPc,            \* ... where the call is suspended, or how it settled
    pdfI,             \* ... the loop variable i
    pdfImages,        \* ... the local array images
    pdfResult         \* ... what the promise resolved with or rejected with

vars == <<employees, rankedEmployees, assignments, isRanking, isDistributing,
          error, name, resumeFile, isAnalyzing, analyzeCalls, rankCalls,
          distributeCalls, timers, errorAge, callEmployees, callResponse,
          callResult, pdfDoc, pdfPc, pdfI, pdfImages, pdfResult>>

appVars == <<employees, rankedEmployees, assignments, isRanking, isDistributing,
             error, name, resumeFile, isAnalyzing, analyzeCalls, rankCalls,
             distributeCalls, timers, errorAge>>

rankCallVars == <<callEmployees, callResponse, callResult>>

pdfVars == <<pdfDoc, pdfPc, pdfI, pdfImages, pdfResult>>

callVars == <<rankCallVars, pdfVars>>

\* ---------------------------------------------------------------- values
Null == "<null>"

\* find() found nothing
Undefined == [undefined |-> TRUE]

PdfMime == "application/pdf"

Files == {[name |-> "cv.pdf", type |-> PdfMime],
          [name |-> "cv.png", type |-> "image/png"]}

\* useState<File | null>(null): no file selected
NoFile == [name |-> "", type |-> ""]

Names == {"", " ", "Al"}

Trim(s) == IF s = " " THEN "" ELSE s

InvalidUploadMsg == "Please upload a valid PDF file."

LibraryNotLoadedMsg ==
    "PDF processing library is not loaded. Please wait a moment and try again."

ReadErrorMsg == "An error occurred while reading the file."

FailedToReadMsg == "Failed to read file"

PasswordMsg ==
    "The PDF file is password-protected. Please provide a decrypted file."

CorruptMsg ==
    "Failed to process the PDF file. It might be corrupted or in an unsupported format."

AnalysisFailedMsg == "Failed to analyze resume with Gemini API."

RankingFailedMsg == "Failed to rank employees with Gemini API."

DistributionFailedMsg == "Failed to distribute tasks with Gemini API."

\* the ways processPdfToImages rejects
PdfErrors ==
    {LibraryNotLoadedMsg, ReadErrorMsg, FailedToReadMsg, PasswordMsg, CorruptMsg}

\* {error && ...}: the notification is rendered when error is truthy
Shown(e) == e # Null /\ e # ""

Ids(s) == {s[i].id : i \in 1..Len(s)}

Min(S) == CHOOSE x \in S : \A y \in S : x <= y

RemoveAt(s, i) == SubSeq(s, 1, i - 1) \o SubSeq(s, i + 1, Len(s))

SeqsUpTo(S, n) == UNION {[1..k -> S] : k \in 0..n}

\* ------------------------------------------------ the model service's replies
RankValues == {20, 80}

Justifications == {"Strong", "Weak"}

\* the objects of a ranking response; the model may name an id it was not sent
RankRecords(ranks, justifications) ==
    [id : 1..(MaxEmployees + 1), rank : ranks, justification : justifications]

\* response.text parsed as a JSON array
Json(body) == [status |-> "json", body |-> body]

\* generateContent rejected, or JSON.parse threw
Failures == {[status |-> "transportError", body |-> <<>>],
             [status |-> "unparseable", body |-> <<>>]}

\* the ways the ranking request can end, with replies of at most n objects
RankOutcomes(ranks, justifications, n) ==
    {Json(b) : b \in SeqsUpTo(RankRecords(ranks, justifications), n)}
        \cup Failures

TaskLists == {<<"Fix bug">>}

\* the objects of a distribution reply: they name the first employee's id or
\* an id that was never sent
AssignmentRecords == [employeeId : {1, MaxEmployees + 1}, tasks : TaskLists]

DistributeOutcomes ==
    {Json(b) : b \in SeqsUpTo(AssignmentRecords, MaxAssignments)} \cup Failures

AnalyzeOutcomes == {Json(<<>>)} \cup Failures

\* what an async function did: returned a value or threw an Error
Returned(v) == [threw |-> FALSE, value |-> v, message |-> ""]

Thrown(m) == [threw |-> TRUE, value |-> <<>>, message |-> m]

\* ------------------------------------------------------------ geminiService
\* the comparator with its operands swapped
CompareRankAsc(a, b) == a.rank - b.rank

\* (a, b) => b.rank - a.rank, the comparator of rankEmployees' sort
CompareRank(a, b) == b.rank - a.rank

\* Array.prototype.sort with CompareRank: stable, so an element's place is the
\* number of elements the comparator puts before it, ties kept in input order
SortRanked(s) ==
    LET before(i) == {j \in 1..Len(s) :
                         \/ CompareRank(s[j], s[i]) < 0
                         \/ CompareRank(s[j], s[i]) = 0 /\ j < i}
    IN [k \in 1..Len(s) |->
           s[CHOOSE i \in 1..Len(s) : Cardinality(before(i)) + 1 = k]]

\* a lookup that keeps the last match
FindLast(rankedData, id) ==
    LET hits == {i \in 1..Len(rankedData) : rankedData[i].id = id}
    IN IF hits = {} THEN Undefined
       ELSE rankedData[CHOOSE i \in hits : \A j \in hits : j <= i]

\* rankedData.find(r => r.id === emp.id): the first match, or undefined
Find(rankedData, id) ==
    LET hits == {i \in 1..Len(rankedData) : rankedData[i].id = id}
    IN IF hits = {} THEN Undefined ELSE rankedData[Min(hits)]

\* the callback of employees.map: { ...emp, ...ranking } or the default
MergeRanking(emp, rankedData) ==
    LET ranking == Find(rankedData, emp.id)
    IN IF ranking # Undefined
       THEN [id |-> ranking.id, name |-> emp.name, summary |-> emp.summary,
             rank |-> ranking.rank, justification |-> ranking.justification]
       ELSE [id |-> emp.id, name |-> emp.name, summary |-> emp.summary,
             rank |-> 0, justification |-> "Not ranked"]

\* a merge that keeps only the employees the response ranked
rankEmployeesDropUnranked(emps, outcome) ==
    IF outcome.status # "json"
    THEN Thrown(RankingFailedMsg)
    ELSE Returned(SortRanked(
             SelectSeq([i \in 1..Len(emps) |-> MergeRanking(emps[i], outcome.body)],
                       LAMBDA e : e.justification # "Not ranked")))

\* rankEmployees: any failure inside the try is rethrown as one Error
rankEmployees(emps, outcome) ==
    IF outcome.status # "json"
    THEN Thrown(RankingFailedMsg)
    ELSE Returned(SortRanked(
             [i \in 1..Len(emps) |-> MergeRanking(emps[i], outcome.body)]))

\* distributeTasks: the parsed array is returned as it is
distributeTasks(emps, tasks, outcome) ==
    IF outcome.status # "json"
    THEN Thrown(DistributionFailedMsg)
    ELSE Returned(outcome.body)

\* analyzeResumeFromPdfImages: the parsed object (its fields are opaque here)
analyzeResumeFromPdfImages(outcome) ==
    IF outcome.status # "json"
    THEN Thrown(AnalysisFailedMsg)
    ELSE Returned([summary |-> "Summary"])

\* ---------------------------------------------------------------- App
\* setError(v)
SetError(v) == error' = v /\ errorAge' = 0

\* handleSetError: setError(message), then a timer that will setError(null)
handleSetError(message) ==
    /\ SetError(message)
    /\ timers' = timers \cup {TimerDelay}

\* the model keeps at most MaxTimers timers pending
CanSchedule == Cardinality(timers \cup {TimerDelay}) <= MaxTimers

\* (a, b) => b.rank - a.rank, the comparator of the sort in App's render
DisplayCompareAsc(a, b) == a.rank - b.rank

DisplayCompare(a, b) == b.rank - a.rank

SortDisplay(s) ==
    LET before(i) == {j \in 1..Len(s) :
                         \/ DisplayCompare(s[j], s[i]) < 0
                         \/ DisplayCompare(s[j], s[i]) = 0 /\ j < i}
    IN [k \in 1..Len(s) |->
           s[CHOOSE i \in 1..Len(s) : Cardinality(before(i)) + 1 = k]]

\* isRanked ? rankedEmployees.sort(...) : employees
displayEmployees(ranked, emps) ==
    IF Len(ranked) > 0 THEN SortDisplay(ranked) ELSE emps

\* the render after setRankedEmployees(r) sorts the stored array in place
Rendered(r) == IF Len(r) > 0 THEN displayEmployees(r, employees) ELSE r

handleAddEmployeeKeepAssignments(employee) ==
    /\ employees' = Append(employees, employee)
    /\ rankedEmployees' = <<>>
    /\ UNCHANGED assignments

handleAddEmployee(employee) ==
    /\ employees' = Append(employees, employee)
    /\ rankedEmployees' = <<>>
    /\ assignments' = <<>>

\* ---------------------------------------------------------- EmployeeForm
\* the name input's onChange; the input is disabled while analysing
SetName(n) ==
    /\ ~isAnalyzing
    /\ n # name
    /\ name' = n
    /\ UNCHANGED <<employees, rankedEmployees, assignments, isRanking,
                   isDistributing, error, resumeFile, isAnalyzing, analyzeCalls,
                   rankCalls, distributeCalls, timers, errorAge>>

RejectUploadKeepFile ==
    /\ handleSetError(InvalidUploadMsg)
    /\ UNCHANGED resumeFile

\* the else branch of handleFileChange
RejectUpload ==
    /\ handleSetError(InvalidUploadMsg)
    /\ resumeFile' = NoFile

\* handleFileChange with a file chosen; the input is disabled while analysing
HandleFileChange(f) ==
    /\ ~isAnalyzing
    /\ CanSchedule
    /\ IF f.type = PdfMime
       THEN resumeFile' = f /\ handleSetError("")
       ELSE RejectUpload
    /\ UNCHANGED <<employees, rankedEmployees, assignments, isRanking,
                   isDistributing, name, isAnalyzing, analyzeCalls, rankCalls,
                   distributeCalls>>

\* disabled={!name.trim() || !resumeFile || isAnalyzing}
SubmitDisabled == Trim(name) = "" \/ resumeFile = NoFile \/ isAnalyzing

\* handleSubmit up to its first await
HandleSubmit ==
    /\ ~SubmitDisabled
    /\ Trim(name) # "" /\ resumeFile # NoFile
    /\ Len(employees) + Len(analyzeCalls) < MaxEmployees
    /\ CanSchedule
    /\ isAnalyzing' = TRUE
    /\ handleSetError("")
    /\ analyzeCalls' = Append(analyzeCalls,
                              [name |-> name, file |-> resumeFile, stage |-> "pdf"])
    /\ UNCHANGED <<employees, rankedEmployees, assignments, isRanking,
                   isDistributing, name, resumeFile, rankCalls, distributeCalls>>

\* await processPdfToImages(resumeFile) settles: the images, or a rejection
\* that the catch reports before the finally releases the flag
PdfResolve(i, outcome) ==
    /\ i \in 1..Len(analyzeCalls)
    /\ analyzeCalls[i].stage = "pdf"
    /\ IF outcome = "images"
       THEN /\ analyzeCalls' = [analyzeCalls EXCEPT ![i].stage = "model"]
            /\ UNCHANGED <<error, errorAge, timers, isAnalyzing>>
       ELSE /\ CanSchedule
            /\ handleSetError(outcome)
            /\ isAnalyzing' = FALSE
            /\ analyzeCalls' = RemoveAt(analyzeCalls, i)
    /\ UNCHANGED <<employees, rankedEmployees, assignments, isRanking,
                   isDistributing, name, resumeFile, rankCalls, distributeCalls>>

\* await analyzeResumeFromPdfImages(pdfImages) settles
AnalyzeResolve(i, outcome) ==
    /\ i \in 1..Len(analyzeCalls)
    /\ analyzeCalls[i].stage = "model"
    /\ LET result == analyzeResumeFromPdfImages(outcome)
       IN IF result.threw
          THEN /\ CanSchedule
               /\ handleSetError(result.message)
               /\ UNCHANGED <<employees, rankedEmployees, assignments, name,
                              resumeFile>>
          ELSE /\ handleAddEmployee([id |-> Len(employees) + 1,
                                     name |-> analyzeCalls[i].name,
                                     summary |-> result.value.summary])
               /\ name' = ""
               /\ resumeFile' = NoFile
               /\ UNCHANGED <<error, errorAge, timers>>
    /\ isAnalyzing' = FALSE
    /\ analyzeCalls' = RemoveAt(analyzeCalls, i)
    /\ UNCHANGED <<isRanking, isDistributing, rankCalls, distributeCalls>>

\* ---------------------------------------------------------- EmployeeList
RankDisabledIgnoringBusy ==
    Len(displayEmployees(rankedEmployees, employees)) = 0

\* disabled={employees.length === 0 || isRanking}, employees = displayEmployees
RankDisabled ==
    Len(displayEmployees(rankedEmployees, employees)) = 0 \/ isRanking

\* handleRankEmployees up to its await; the roster is serialised into the request
HandleRankEmployees ==
    /\ ~RankDisabled
    /\ Len(employees) # 0
    /\ isRanking' = TRUE
    /\ SetError(Null)
    /\ rankCalls' = Append(rankCalls, employees)
    /\ UNCHANGED <<employees, rankedEmployees, assignments, isDistributing, name,
                   resumeFile, isAnalyzing, analyzeCalls, distributeCalls, timers>>

RankFailedClearsRanked(message) ==
    /\ SetError(message)
    /\ rankedEmployees' = <<>>

\* the catch of handleRankEmployees
RankFailed(message) ==
    /\ SetError(message)
    /\ UNCHANGED rankedEmployees

RankSucceededIfFresh(call, result) ==
    /\ rankedEmployees' = IF call = employees THEN Rendered(result) ELSE rankedEmployees
    /\ UNCHANGED <<error, errorAge>>

\* setRankedEmployees(result), whatever the roster is by now
RankSucceeded(call, result) ==
    /\ rankedEmployees' = Rendered(result)
    /\ UNCHANGED <<error, errorAge>>

\* await rankEmployees(employees) settles
RankResolve(i, outcome) ==
    /\ i \in 1..Len(rankCalls)
    /\ LET result == rankEmployees(rankCalls[i], outcome)
       IN IF result.threw
          THEN RankFailed(result.message)
          ELSE RankSucceeded(rankCalls[i], result.value)
    /\ isRanking' = FALSE
    /\ rankCalls' = RemoveAt(rankCalls, i)
    /\ UNCHANGED <<employees, assignments, isDistributing, name, resumeFile,
                   isAnalyzing, analyzeCalls, distributeCalls, timers>>

\* ------------------------------------------------------------- TaskPanel
\* the textarea's text as its lines
TaskTexts == {<<"">>, <<"Fix bug", "">>}

\* tasks.trim() is empty
BlankText(text) == \A k \in 1..Len(text) : Trim(text[k]) = ""

\* tasksText.split('\n').filter(t => t.trim() !== '')
SplitTasks(text) == SelectSeq(text, LAMBDA t : Trim(t) # "")

\* disabled={rankedEmployees.length === 0 || !tasks.trim() || isDistributing}
DistributeDisabled(text) ==
    Len(rankedEmployees) = 0 \/ BlankText(text) \/ isDistributing

\* the ids of the roster serialised into the distribution request
RequestIds(emps) == [k \in 1..Len(emps) |-> emps[k].id]

\* handleDistribute and handleDistributeTasks up to the await
HandleDistributeTasks(text) ==
    /\ ~DistributeDisabled(text)
    /\ ~BlankText(text)
    /\ Len(rankedEmployees) # 0
    /\ Len(SplitTasks(text)) # 0
    /\ isDistributing' = TRUE
    /\ SetError(Null)
    /\ distributeCalls' = Append(distributeCalls,
                                 [employees |-> RequestIds(rankedEmployees),
                                  tasks |-> SplitTasks(text)])
    /\ UNCHANGED <<employees, rankedEmployees, assignments, isRanking, name,
                   resumeFile, isAnalyzing, analyzeCalls, rankCalls, timers>>

\* await distributeTasks(rankedEmployees, tasks) settles
DistributeResolve(i, outcome) ==
    /\ i \in 1..Len(distributeCalls)
    /\ LET result == distributeTasks(distributeCalls[i].employees,
                                     distributeCalls[i].tasks, outcome)
       IN IF result.threw
          THEN SetError(result.message) /\ UNCHANGED assignments
          ELSE assignments' = result.value /\ UNCHANGED <<error, errorAge>>
    /\ isDistributing' = FALSE
    /\ distributeCalls' = RemoveAt(distributeCalls, i)
    /\ UNCHANGED <<employees, rankedEmployees, isRanking, name, resumeFile,
                   isAnalyzing, analyzeCalls, rankCalls, timers>>

\* ---------------------------------------------------- notification, timers
\* the notification's close button
DismissError ==
    /\ Shown(error)
    /\ SetError(Null)
    /\ UNCHANGED <<employees, rankedEmployees, assignments, isRanking,
                   isDistributing, name, resumeFile, isAnalyzing, analyzeCalls,
                   rankCalls, distributeCalls, timers>>

\* the callback of the timer with remaining delay t runs: setError(null)
TimerFire(t) ==
    /\ t \in timers
    /\ timers' = timers \ {t}
    /\ SetError(Null)
    /\ UNCHANGED <<employees, rankedEmployees, assignments, isRanking,
                   isDistributing, name, resumeFile, isAnalyzing, analyzeCalls,
                   rankCalls, distributeCalls>>

\* one time unit passes; a due timer runs first
Tick ==
    /\ 0 \notin timers
    /\ timers' = {t - 1 : t \in timers}
    /\ errorAge' = IF ~Shown(error) THEN 0
                   ELSE IF errorAge > TimerDelay THEN errorAge ELSE errorAge + 1
    /\ UNCHANGED <<employees, rankedEmployees, assignments, isRanking,
                   isDistributing, error, name, resumeFile, isAnalyzing,
                   analyzeCalls, rankCalls, distributeCalls>>

\* ---------------------------------------------------- processPdfToImages
\* A file and what its processing meets: whether window.pdfjsLib is there, how
\* the FileReader ends, how getDocument ends, the number of pages, and the page
\* (0: none) at which getPage, getContext('2d') or render fails.
PdfDocs ==
    {d \in [lib : BOOLEAN, read : {"ok", "error", "empty"},
            open : {"ok", "password", "corrupt"}, numPages : 1..MaxPages,
            badPage : 0..MaxPages, badStep : {"getPage", "context", "render"}] :
        /\ d.badPage <= d.numPages
        /\ d.badPage = 0 => d.badStep = "getPage"}

\* no call in progress
NoDoc == [lib |-> TRUE, read |-> "ok", open |-> "ok", numPages |-> 1,
          badPage |-> 0, badStep |-> "getPage"]

NotCalled == [threw |-> FALSE, value |-> <<>>, message |-> "not called"]

\* canvas.toDataURL('image/jpeg').split(',')[1] of the canvas page i was rendered to
Jpeg(i) == [mimeType |-> "image/jpeg", data |-> i]

\* reject(new Error(message))
PdfReject(message) ==
    /\ pdfPc' = "rejected"
    /\ pdfResult' = Thrown(message)

\* resolve(images)
PdfResolveWith(images) ==
    /\ pdfPc' = "resolved"
    /\ pdfResult' = Returned(images)

\* a catch that reports nothing to the promise
PdfCatchSwallows(errorName) ==
    /\ pdfPc' = "caught"
    /\ UNCHANGED pdfResult

\* the catch of the onload handler
PdfCatch(errorName) ==
    PdfReject(IF errorName = "PasswordException" THEN PasswordMsg ELSE CorruptMsg)

LoopContinuesBelow(i, numPages) == i < numPages

\* i <= pdf.numPages
LoopContinues(i, numPages) == i <= numPages

\* the loop test, then the next getPage or resolve(images)
PdfLoop(i, images) ==
    IF LoopContinues(i, pdfDoc.numPages)
    THEN pdfPc' = "getPage" /\ UNCHANGED pdfResult
    ELSE PdfResolveWith(images)

\* processPdfToImages(file) up to fileReader.readAsArrayBuffer(file)
PdfCall(doc) ==
    /\ pdfPc = "idle"
    /\ pdfDoc' = doc
    /\ IF ~doc.lib
       THEN PdfReject(LibraryNotLoadedMsg)
       ELSE pdfPc' = "reading" /\ UNCHANGED pdfResult
    /\ UNCHANGED <<pdfI, pdfImages>>

\* the FileReader ends: onerror, or onload with or without a result
PdfRead ==
    /\ pdfPc = "reading"
    /\ CASE pdfDoc.read = "error" -> PdfReject(ReadErrorMsg)
         [] pdfDoc.read = "empty" -> PdfReject(FailedToReadMsg)
         [] OTHER -> pdfPc' = "loading" /\ UNCHANGED pdfResult
    /\ UNCHANGED <<pdfDoc, pdfI, pdfImages>>

\* await getDocument(typedarray).promise, then images = [] and i = 1
PdfLoad ==
    /\ pdfPc = "loading"
    /\ CASE pdfDoc.open = "password" ->
                PdfCatch("PasswordException") /\ UNCHANGED <<pdfI, pdfImages>>
         [] pdfDoc.open = "corrupt" ->
                PdfCatch("InvalidPDFException") /\ UNCHANGED <<pdfI, pdfImages>>
         [] OTHER ->
                /\ pdfImages' = <<>>
                /\ pdfI' = 1
                /\ PdfLoop(1, <<>>)
    /\ UNCHANGED pdfDoc

\* await pdf.getPage(i), then the canvas and its context
PdfGetPage ==
    /\ pdfPc = "getPage"
    /\ IF pdfDoc.badPage = pdfI /\ pdfDoc.badStep \in {"getPage", "context"}
       THEN PdfCatch("Error")
       ELSE pdfPc' = "render" /\ UNCHANGED pdfResult
    /\ UNCHANGED <<pdfDoc, pdfI, pdfImages>>

\* await page.render(...).promise, then images.push and i++
PdfRender ==
    /\ pdfPc = "render"
    /\ IF pdfDoc.badPage = pdfI /\ pdfDoc.badStep = "render"
       THEN PdfCatch("Error") /\ UNCHANGED <<pdfI, pdfImages>>
       ELSE /\ pdfImages' = Append(pdfImages, Jpeg(pdfI))
            /\ pdfI' = pdfI + 1
            /\ PdfLoop(pdfI + 1, Append(pdfImages, Jpeg(pdfI)))
    /\ UNCHANGED pdfDoc

PdfSettled == pdfPc \in {"resolved", "rejected"}

PdfIdle ==
    /\ pdfDoc = NoDoc
    /\ pdfPc = "idle"
    /\ pdfI = 0
    /\ pdfImages = <<>>
    /\ pdfResult = NotCalled

\* ------------------------------------------------------------ specification

AppInit ==
    /\ employees = <<>>
    /\ rankedEmployees = <<>>
    /\ assignments = <<>>
    /\ isRanking = FALSE
    /\ isDistributing = FALSE
    /\ error = Null
    /\ name = ""
    /\ resumeFile = NoFile
    /\ isAnalyzing = FALSE
    /\ analyzeCalls = <<>>
    /\ rankCalls = <<>>
    /\ distributeCalls = <<>>
    /\ timers = {}
    /\ errorAge = 0

Init ==
    /\ AppInit
    /\ callEmployees = <<>>
    /\ callResponse = Json(<<>>)
    /\ callResult = NotCalled
    /\ PdfIdle

\* Time abstracted: a pending timer's callback may run at any moment.  Ranking
\* replies here carry one rank value and one justification (beside the default
\* 0 / "Not ranked"); SpecRank below draws them from the full sets.
Next ==
    \/ \E n \in Names : SetName(n) /\ UNCHANGED callVars
    \/ \E f \in Files : HandleFileChange(f) /\ UNCHANGED callVars
    \/ HandleSubmit /\ UNCHANGED callVars
    \/ \E i \in 1..Len(analyzeCalls), o \in PdfErrors \cup {"images"} :
           PdfResolve(i, o) /\ UNCHANGED callVars
    \/ \E i \in 1..Len(analyzeCalls), o \in AnalyzeOutcomes :
           AnalyzeResolve(i, o) /\ UNCHANGED callVars
    \/ HandleRankEmployees /\ UNCHANGED callVars
    \/ \E i \in 1..Len(rankCalls), o \in RankOutcomes({80}, {"Strong"}, MaxRankResp) :
           RankResolve(i, o) /\ UNCHANGED callVars
    \/ \E text \in TaskTexts : HandleDistributeTasks(text) /\ UNCHANGED callVars
    \/ \E i \in 1..Len(distributeCalls), o \in DistributeOutcomes :
           DistributeResolve(i, o) /\ UNCHANGED callVars
    \/ DismissError /\ UNCHANGED callVars
    \/ \E t \in timers : TimerFire(t) /\ UNCHANGED callVars

Spec == Init /\ [][Next]_vars

\* Time tracked: a timer's callback runs when its delay has elapsed.  The
\* replies carry no records and one PDF error stands for the four, which
\* leaves every path through the handlers open.
NextTimed ==
    \/ \E n \in {"", "Al"} : SetName(n) /\ UNCHANGED callVars
    \/ \E f \in Files : HandleFileChange(f) /\ UNCHANGED callVars
    \/ HandleSubmit /\ UNCHANGED callVars
    \/ \E i \in 1..Len(analyzeCalls), o \in {PasswordMsg, "images"} :
           PdfResolve(i, o) /\ UNCHANGED callVars
    \/ \E i \in 1..Len(analyzeCalls), o \in AnalyzeOutcomes :
           AnalyzeResolve(i, o) /\ UNCHANGED callVars
    \/ HandleRankEmployees /\ UNCHANGED callVars
    \/ \E i \in 1..Len(rankCalls), o \in {Json(<<>>)} \cup Failures :
           RankResolve(i, o) /\ UNCHANGED callVars
    \/ \E text \in TaskTexts : HandleDistributeTasks(text) /\ UNCHANGED callVars
    \/ \E i \in 1..Len(distributeCalls), o \in {Json(<<>>)} \cup Failures :
           DistributeResolve(i, o) /\ UNCHANGED callVars
    \/ DismissError /\ UNCHANGED callVars
    \/ TimerFire(0) /\ UNCHANGED callVars
    \/ Tick /\ UNCHANGED callVars

SpecTimed == Init /\ [][NextTimed]_vars

\* ------------------------------------------- rankEmployees called on its own
\* rosters as the form builds them: distinct ids, here in any order
Rosters ==
    {r \in SeqsUpTo([id : 1..MaxEmployees, name : {"Al"}, summary : {"Summary"}],
                    MaxEmployees) :
        \A i, j \in 1..Len(r) : i # j => r[i].id # r[j].id}

CallInit ==
    /\ AppInit
    /\ callEmployees \in Rosters
    /\ callResponse \in RankOutcomes(RankValues, Justifications, MaxCallResp)
    /\ callResult = NotCalled
    /\ PdfIdle

\* const result = await rankEmployees(employees)
CallRankEmployees ==
    /\ callResult = NotCalled
    /\ callResult' = rankEmployees(callEmployees, callResponse)
    /\ UNCHANGED <<callEmployees, callResponse>>
    /\ UNCHANGED pdfVars
    /\ UNCHANGED appVars

CallNext == CallRankEmployees

SpecRank == CallInit /\ [][CallNext]_vars

\* --------------------------------------- processPdfToImages called on its own
PdfInit ==
    /\ AppInit
    /\ callEmployees = <<>>
    /\ callResponse = Json(<<>>)
    /\ callResult = NotCalled
    /\ pdfDoc \in PdfDocs
    /\ pdfPc = "idle"
    /\ pdfI = 0
    /\ pdfImages = <<>>
    /\ pdfResult = NotCalled

PdfNext ==
    \/ PdfCall(pdfDoc) /\ UNCHANGED <<appVars, rankCallVars>>
    \/ PdfRead /\ UNCHANGED <<appVars, rankCallVars>>
    \/ PdfLoad /\ UNCHANGED <<appVars, rankCallVars>>
    \/ PdfGetPage /\ UNCHANGED <<appVars, rankCallVars>>
    \/ PdfRender /\ UNCHANGED <<appVars, rankCallVars>>

SpecPdf == PdfInit /\ [][PdfNext]_vars

\* ------------------------- the application with processPdfToImages in detail
\* files with at most one fault on the way through processPdfToImages
LiveDocs ==
    {d \in PdfDocs :
        /\ d.numPages = MaxPages
        /\ Cardinality({f \in {"lib", "read", "open", "page"} :
                            \/ f = "lib" /\ ~d.lib
                            \/ f = "read" /\ d.read # "ok"
                            \/ f = "open" /\ d.open # "ok"
                            \/ f = "page" /\ d.badPage # 0}) <= 1}

\* what await processPdfToImages(resumeFile) hands to handleSubmit
PdfOutcome == IF pdfResult.threw THEN pdfResult.message ELSE "images"

\* the settled promise has been consumed
PdfReturn ==
    /\ pdfDoc' = NoDoc
    /\ pdfPc' = "idle"
    /\ pdfI' = 0
    /\ pdfImages' = <<>>
    /\ pdfResult' = NotCalled

\* handleSubmit up to await processPdfToImages(resumeFile)
SubmitFile == \E d \in LiveDocs : HandleSubmit /\ PdfCall(d) /\ UNCHANGED rankCallVars

\* the file read and the PDF library's promises complete or fail
PdfStep ==
    \/ PdfRead /\ UNCHANGED <<appVars, rankCallVars>>
    \/ PdfLoad /\ UNCHANGED <<appVars, rankCallVars>>
    \/ PdfGetPage /\ UNCHANGED <<appVars, rankCallVars>>
    \/ PdfRender /\ UNCHANGED <<appVars, rankCallVars>>

\* handleSubmit resumes with what processPdfToImages settled with
PdfAwaited ==
    \E i \in 1..Len(analyzeCalls) :
        PdfSettled /\ PdfResolve(i, PdfOutcome) /\ PdfReturn /\ UNCHANGED rankCallVars

\* the remote requests complete or fail
AnalyzeAwaited ==
    \E i \in 1..Len(analyzeCalls), o \in AnalyzeOutcomes :
        AnalyzeResolve(i, o) /\ UNCHANGED callVars

RankAwaited ==
    \E i \in 1..Len(rankCalls), o \in {Json(<<>>)} \cup Failures :
        RankResolve(i, o) /\ UNCHANGED callVars

DistributeAwaited ==
    \E i \in 1..Len(distributeCalls), o \in {Json(<<>>)} \cup Failures :
        DistributeResolve(i, o) /\ UNCHANGED callVars

NextLive ==
    \/ \E n \in {"", "Al"} : SetName(n) /\ UNCHANGED callVars
    \/ \E f \in Files : HandleFileChange(f) /\ UNCHANGED callVars
    \/ SubmitFile
    \/ PdfStep
    \/ PdfAwaited
    \/ AnalyzeAwaited
    \/ HandleRankEmployees /\ UNCHANGED callVars
    \/ RankAwaited
    \/ \E text \in TaskTexts : HandleDistributeTasks(text) /\ UNCHANGED callVars
    \/ DistributeAwaited
    \/ DismissError /\ UNCHANGED callVars
    \/ \E t \in timers : TimerFire(t) /\ UNCHANGED callVars

\* every started file read, PDF promise and remote request completes or fails,
\* and the handler awaiting it then runs on; the user's steps are not forced
LiveFairness ==
    /\ WF_vars(PdfStep)
    /\ WF_vars(PdfAwaited)
    /\ WF_vars(AnalyzeAwaited)
    /\ WF_vars(RankAwaited)
    /\ WF_vars(DistributeAwaited)

SpecLive == Init /\ [][NextLive]_vars /\ LiveFairness

\* ------------------------------------------------------------------ claims
\* an awaited ranking call settled in this step, and how
RankSettled == Len(rankCalls') < Len(rankCalls)

RankFailedStep == RankSettled /\ error' = RankingFailedMsg

RankAppliedStep == RankSettled /\ error' # RankingFailedMsg

\* an awaited distribution call settled in this step, and how
DistributeSettled == Len(distributeCalls') < Len(distributeCalls)

DistributeFailedStep == DistributeSettled /\ error' = DistributionFailedMsg

\* a non-PDF file is selected in this step
RejectStep == \E f \in Files : f.type # PdfMime /\ HandleFileChange(f)

\* C1: every step that changes the roster appends one employee at its end and
\* leaves the ranked roster and the task assignments empty, whatever they held.
C1_AddEmployeeResets ==
    [][employees' # employees =>
          /\ Len(employees') = Len(employees) + 1
          /\ SubSeq(employees', 1, Len(employees)) = employees
          /\ rankedEmployees' = <<>>
          /\ assignments' = <<>>]_vars

\* C1 witness: an employee was added after a ranking existed (a distribution
\* request for the one-employee ranked roster is still in flight).
C1_Witness ==
    /\ Len(employees) = 2
    /\ Len(distributeCalls) = 1
    /\ rankedEmployees = <<>>
    /\ assignments = <<>>

\* C2: a ranking response is applied unconditionally: when the call settles
\* with a result, the ranked roster becomes the ranking of the roster the
\* request was issued for, whatever the roster is by then.
C2_AppliedUnconditionally ==
    [][RankAppliedStep =>
          /\ Len(rankedEmployees') = Len(rankCalls[1])
          /\ Ids(rankedEmployees') = Ids(rankCalls[1])]_vars

\* C2 witness: the stale overwrite: a ranked roster of n entries that lacks
\* the newest employee of a roster of n + 1.
C2_Witness ==
    /\ Len(rankedEmployees) > 0
    /\ Len(employees) = Len(rankedEmployees) + 1
    /\ employees[Len(employees)].id \notin Ids(rankedEmployees)

\* C3: a failed ranking or distribution request changes only the error
\* notification and its own busy flag: the roster, the ranked roster and the
\* assignments (and the form, the timers and the other calls) stay as they were.
C3_FailureChangesNothing ==
    [][RankFailedStep \/ DistributeFailedStep =>
          /\ employees' = employees
          /\ rankedEmployees' = rankedEmployees
          /\ assignments' = assignments
          /\ UNCHANGED <<name, resumeFile, isAnalyzing, analyzeCalls, timers>>
          /\ RankFailedStep =>
                 ~isRanking' /\ UNCHANGED <<isDistributing, distributeCalls>>
          /\ DistributeFailedStep =>
                 ~isDistributing' /\ UNCHANGED <<isRanking, rankCalls>>]_vars

\* C3 witness: a re-ranking failed and the previous ranked roster is kept.
C3_Witness ==
    /\ error = RankingFailedMsg
    /\ Len(rankedEmployees) > 0
    /\ ~isRanking

\* C4: a notification that is shown is never older than the timer's delay.
C4_SelfClears == Shown(error) => errorAge <= TimerDelay

\* C5 as stated: selecting a non-PDF file leaves the roster, the entered name
\* and the previously selected file unchanged and raises InvalidUpload.
C5_Original ==
    [][RejectStep =>
          /\ employees' = employees
          /\ name' = name
          /\ resumeFile' = resumeFile
          /\ error' = InvalidUploadMsg]_vars

\* C5 amended: selecting a non-PDF file leaves the roster and the entered name
\* unchanged, clears the selected file, and raises exactly one InvalidUpload
\* notification with one timer.
C5_RejectClearsFile ==
    [][RejectStep =>
          /\ employees' = employees
          /\ rankedEmployees' = rankedEmployees
          /\ assignments' = assignments
          /\ name' = name
          /\ resumeFile' = NoFile
          /\ error' = InvalidUploadMsg
          /\ timers' = timers \cup {TimerDelay}]_vars

\* C5 witness: a non-PDF file was rejected with a name entered and a roster.
C5_Witness ==
    /\ error = InvalidUploadMsg
    /\ resumeFile = NoFile
    /\ name = "Al"
    /\ Len(employees) > 0

\* the places of the records of a reply that carry the id
Hits(body, id) == {k \in 1..Len(body) : body[k].id = id}

\* C6: for a parseable response the call does not fail, and every roster entry
\* comes out with the rank and justification of the first record with its id,
\* or with rank 0 and "Not ranked" when no record has its id.
C6_TotalMerge ==
    callResult # NotCalled /\ callResponse.status = "json" =>
        /\ ~callResult.threw
        /\ \A i \in 1..Len(callEmployees) :
               LET id == callEmployees[i].id
                   hits == Hits(callResponse.body, id)
                   outs == Hits(callResult.value, id)
               IN /\ outs # {}
                  /\ \A j \in outs :
                         IF hits = {}
                         THEN /\ callResult.value[j].rank = 0
                              /\ callResult.value[j].justification = "Not ranked"
                         ELSE /\ callResult.value[j].rank =
                                     callResponse.body[Min(hits)].rank
                              /\ callResult.value[j].justification =
                                     callResponse.body[Min(hits)].justification

\* C6 witness: a call whose response has two different records for one roster
\* id and no record for another.
C6_Witness ==
    /\ callResult # NotCalled
    /\ callResponse.status = "json"
    /\ \E i, j \in 1..Len(callEmployees) :
           /\ Hits(callResponse.body, callEmployees[i].id) = {}
           /\ Cardinality(Hits(callResponse.body, callEmployees[j].id)) = 2
           /\ callResponse.body[1] # callResponse.body[2]

\* C7: for a parseable response the result has as many entries as the roster
\* and holds each roster id exactly once and no other id.
C7_SameIds ==
    callResult # NotCalled /\ callResponse.status = "json" =>
        /\ ~callResult.threw
        /\ Len(callResult.value) = Len(callEmployees)
        /\ Ids(callResult.value) \subseteq Ids(callEmployees)
        /\ \A id \in Ids(callEmployees) :
               Cardinality(Hits(callResult.value, id)) = 1

\* C7 witness: a call whose response names an id outside the roster and omits
\* a roster id.
C7_Witness ==
    /\ callResult # NotCalled
    /\ callResponse.status = "json"
    /\ Len(callEmployees) = 2
    /\ \E k \in 1..Len(callResponse.body) :
           callResponse.body[k].id \notin Ids(callEmployees)
    /\ \E i \in 1..2 : Hits(callResponse.body, callEmployees[i].id) = {}

\* C8: the ranked roster is sorted non-increasing by rank.
C8_SortedByRank ==
    \A i, j \in 1..Len(rankedEmployees) :
        i < j => rankedEmployees[i].rank >= rankedEmployees[j].rank

\* C8 witness: the sort moved the second employee ahead of the first.
C8_Witness ==
    /\ Len(rankedEmployees) = 2
    /\ rankedEmployees[1].id = 2
    /\ rankedEmployees[1].rank > rankedEmployees[2].rank

\* C9: every stored assignment names an entry of the current ranked roster.
C9_AssignmentsReferenceRanked ==
    \A k \in 1..Len(assignments) :
        assignments[k].employeeId \in Ids(rankedEmployees)

\* C10: at most one request of each kind is outstanding, and each busy flag is
\* set exactly while its request is outstanding.
C10_OnePerKind ==
    /\ Len(analyzeCalls) <= 1
    /\ Len(rankCalls) <= 1
    /\ Len(distributeCalls) <= 1
    /\ isAnalyzing <=> Len(analyzeCalls) = 1
    /\ isRanking <=> Len(rankCalls) = 1
    /\ isDistributing <=> Len(distributeCalls) = 1

\* C10 witness: one request of each kind is outstanding at the same time.
C10_Witness ==
    /\ Len(analyzeCalls) = 1
    /\ Len(rankCalls) = 1
    /\ Len(distributeCalls) = 1

\* the PDF is valid and not encrypted: it opens and every page loads and renders
ValidPdf(d) ==
    d.open = "ok" /\ ~(d.badPage # 0 /\ d.badStep \in {"getPage", "render"})

\* the library is loaded, the file is read, and every canvas gives a 2D context
PdfEnvironmentOk(d) ==
    d.lib /\ d.read = "ok" /\ ~(d.badPage # 0 /\ d.badStep = "context")

\* the JPEG renderings of pages 1..n, in page order
AllPages(n) == [i \in 1..n |-> Jpeg(i)]

\* C11 as stated: for every valid non-encrypted PDF the call resolves with the
\* renderings of pages 1..N in order, and a failing page delivers no images.
C11_Original ==
    PdfSettled =>
        IF ValidPdf(pdfDoc)
        THEN pdfResult = Returned(AllPages(pdfDoc.numPages))
        ELSE pdfPc = "rejected" /\ pdfResult.value = <<>>

\* C11 amended: when the PDF library is loaded, the file is read and a canvas
\* context is available, a valid non-encrypted PDF of N pages resolves with the
\* renderings of pages 1..N in order; in every other case the call rejects and
\* delivers no images, partial or not.
C11_PagesInOrder ==
    PdfSettled =>
        IF ValidPdf(pdfDoc) /\ PdfEnvironmentOk(pdfDoc)
        THEN pdfResult = Returned(AllPages(pdfDoc.numPages))
        ELSE pdfPc = "rejected" /\ pdfResult.value = <<>>

\* C11 witness: a call resolved with the images of a PDF of two pages.
C11_Witness ==
    /\ pdfPc = "resolved"
    /\ pdfDoc.numPages = 2
    /\ Len(pdfResult.value) = 2

\* a timer's callback ran in this step (no other step lessens the timers)
TimerFiredStep == Cardinality(timers') < Cardinality(timers)

\* C12: a timer never removes a notification that has been shown for less than
\* the timer's delay.
C12_NoPrematureClear ==
    [][TimerFiredStep /\ Shown(error) => errorAge >= TimerDelay]_vars

\* C13: task assignments are held only while a ranked roster is.
C13_AssignmentsNeedRanking ==
    Len(assignments) > 0 => Len(rankedEmployees) > 0

\* C14: every busy flag that was raised is lowered again, whether the operation
\* succeeded or failed, once the file read and the remote request have ended.
\* (A flag that is always eventually down again after being up is a flag that
\* is down infinitely often: flag ~> ~flag is []<>~flag.)
C14_FlagsReleased ==
    /\ []<>(~isAnalyzing)
    /\ []<>(~isRanking)
    /\ []<>(~isDistributing)

\* the analysis and the ranking succeeded, the distribution failed, and all
\* three flags are down again
C14_Witness ==
    /\ Len(rankedEmployees) > 0
    /\ error = DistributionFailedMsg
    /\ ~isAnalyzing /\ ~isRanking /\ ~isDistributing

====
